---- MODULE Spec2Model ----
(***************************************************************************)
(* Model of the quiz server (src/src/main.py): the host's control_server   *)
(* coroutine, one connect() coroutine per participant websocket, and the   *)
(* shared Quiz / Players / Results objects.  All coroutines run on one     *)
(* asyncio event loop: a step of the model is the code executed between    *)
(* two awaits; every await is a point where the other coroutines may run.  *)
(***************************************************************************)
EXTENDS Integers, Sequences, FiniteSets, TLC

\* ---- bounds of the model -------------------------------------------------
NumQuestions == 2          \* len(quiz.questions) of the loaded quiz
NumConns == 2              \* websocket connections opened during the session
CountCap == 2              \* saturation value of the ghost counters

NameSeq == <<"alice", "bob">>
Names == {NameSeq[i] : i \in 1..Len(NameSeq)}   \* player_name path parameters
Answers == {"A", "B"}      \* values of data["answer"]
Malformed == "malformed"   \* a JSON payload without an "answer" key
Payloads == Answers \cup {Malformed}
NoText == "none"           \* no payload or input
\* the answer text a connection submits while its gate is open: one text per
\* connection, different for neighbouring connections
AnswerOf(c) == IF c % 2 = 1 THEN "A" ELSE "B"
\* the payloads a connection sends
PayloadsOf(c) == {AnswerOf(c), Malformed}
Inputs == {"y", "Y", "n", ""}   \* lines typed at the host console
Conns == 1..NumConns

VARIABLES
    current_question,  \* Quiz.current_question
    players,           \* Players._players (list of connections, in add order)
    name,              \* Player.name per connection
    accepting_answer,  \* Player.accepting_answer per connection
    results,           \* Results._results: (name, number) -> entry
    pc,                \* position of each connect() coroutine
    data,              \* connect(): data["answer"] of the answer being processed
    closed,            \* websocket.close() was called on the connection
    hostPc,            \* position of control_server
    idx,               \* control_server: position of the running list iterator
    question,          \* control_server: local `question` (its index)
    printed,           \* what print(app.state.results) wrote, <<>> before
    \* observations of the run (never read by the program)
    asked,             \* per connection: question payloads handed to send_json
                       \* since the last advance
    echoed,            \* per connection: echo handed to send_json for `data`
    gateq,             \* cursor when the gate was found open for `data`
    accepted,          \* (name, cursor at gate check) of every echoed answer
    writeCount,        \* check_answer calls per ledger key (saturating)
    passes,            \* per connection: gate passes since the last advance
    wwrites,           \* per connection: ledger writes since the last advance
    advances,          \* number of y/Y commands read so far
    broadcastLog,      \* question index of the payload of each broadcast
    late,              \* per connection: "no" when it was registered at the
                       \* last advance; else when Players.add ran: "send"
                       \* (while Players.send was suspended) or "idle"
    failed,            \* connections whose handle raised RuntimeError in the
                       \* running (or last) Players.send / close_connection loop
    last               \* the message or console line the last step consumed

vars == <<current_question, players, name, accepting_answer, results, pc, data,
          closed, hostPc, idx, question, printed, asked, echoed, gateq,
          accepted, writeCount, passes, wwrites, advances, broadcastLog,
          late, failed, last>>

\* ---- pure helpers --------------------------------------------------------
Range(s) == {s[i] : i \in 1..Len(s)}

Bump(n) == IF n < CountCap THEN n + 1 ELSE n

Lower_AllY(ch) == "y"
\* str.lower() on the console inputs
Lower(ch) == IF ch = "Y" THEN "y" ELSE IF ch = "N" THEN "n" ELSE ch

\* Quiz.__len__
QuizLen == NumQuestions

IndexOK_Wrap(i) == -QuizLen <= i /\ i <= QuizLen
\* Python list indexing self.questions[i]: negative indices count from the end,
\* anything outside -len..len-1 raises IndexError
IndexOK(i) == -QuizLen <= i /\ i < QuizLen

QuestionReadOK_Any(i) == TRUE
\* Quiz.question: self.questions[self.current_question] does not raise
QuestionReadOK(i) == IndexOK(i)

QuestionAt_First(i) == 0
\* the position a valid Python index denotes (a question is identified by it)
QuestionAt(i) == IF i < 0 THEN i + QuizLen ELSE i

NextIndex_Skip(i) == i + 2
\* Quiz.__next__: self.current_question += 1
NextIndex(i) == i + 1

\* Question.ask(): the broadcast payload
Ask(q) == [type |-> "question", text |-> q]

Repeat_Blank(a) == [type |-> "repeat", text |-> NoText]
\* the echo payload of connect()
Repeat(a) == [type |-> "repeat", text |-> a]

\* no echo in flight
NoEcho == [type |-> "none", text |-> "none"]

NewPlayerGate_Open == TRUE
\* Player.accepting_answer default
NewPlayerGate == FALSE

\* a handle on which send_json / close do not raise RuntimeError
Reachable(c) == pc[c] \in {"recv", "echo"} /\ ~closed[c]

\* websocket.send_json / websocket.close raise RuntimeError on the handle
Raised(c) == ~Reachable(c)

Caught_None == FALSE
\* Player.send / Player.close_connection: `except RuntimeError:` logs and
\* returns
Caught == TRUE

\* the exception leaves Player.send / Player.close_connection
Propagates(c) == Raised(c) /\ ~Caught

\* the handles that raised in the loop, with the one of this call
Failing(f, c) == IF Raised(c) THEN f \cup {c} ELSE f

\* what a step consumed: a message of a connection, a console line, nothing
Msg(c, m) == [kind |-> "msg", conn |-> c, text |-> m]
Input(ch) == [kind |-> "input", conn |-> 0, text |-> ch]
NoEvent == [kind |-> "none", conn |-> 0, text |-> NoText]

\* Player.send of a question payload: handed to send_json; a RuntimeError of
\* an unreachable handle is swallowed
PlayerSend(a, c, m) == [a EXCEPT ![c] = @ \cup {m}]

\* Player.close_connection: websocket.close(reason); RuntimeError is swallowed
PlayerClose(c) == [closed EXCEPT ![c] = TRUE]

UnblockPlayers_None(g) == g
\* Players.unblock_players
UnblockPlayers(g) == [c \in Conns |-> IF c \in Range(players) THEN TRUE ELSE g[c]]

GateOpen_Always(g, c) == TRUE
\* connect(): `if player.accepting_answer:`
GateOpen(g, c) == g[c]

BlockAnswer_Skip(g, c) == g
\* connect(): player.accepting_answer = False
BlockAnswer(g, c) == [g EXCEPT ![c] = FALSE]

\* Results.check_answer: dict item assignment
CheckAnswer(r, n, number, answer) ==
    (<<n, number>> :> [answer |-> answer, correct |-> TRUE]) @@ r

\* Results.__str__: one row per ledger entry
ResultsStr(r) == {<<k[1], k[2], r[k].answer, r[k].correct>> : k \in DOMAIN r}

\* shutdown_server has not killed the process
Alive == hostPc # "dead"

\* names are compared only for equality, so a new connection takes a name
\* already in use or the first unused one of NameSeq
NameChoices ==
    {NameSeq[i] : i \in {j \in 1..Len(NameSeq) :
                             j <= Cardinality({name[d] : d \in Range(players)}) + 1}}

\* ---- initial state -------------------------------------------------------
Init ==
    /\ current_question = -1
    /\ players = <<>>
    /\ name = [c \in Conns |-> "none"]
    /\ accepting_answer = [c \in Conns |-> FALSE]
    /\ results = <<>>
    /\ pc = [c \in Conns |-> "idle"]
    /\ data = [c \in Conns |-> "none"]
    /\ closed = [c \in Conns |-> FALSE]
    /\ hostPc = "input"
    /\ idx = 0
    /\ question = -1
    /\ printed = <<>>
    /\ asked = [c \in Conns |-> {}]
    /\ echoed = [c \in Conns |-> NoEcho]
    /\ gateq = [c \in Conns |-> -1]
    /\ accepted = {}
    /\ writeCount = <<>>
    /\ passes = [c \in Conns |-> 0]
    /\ wwrites = [c \in Conns |-> 0]
    /\ advances = 0
    /\ broadcastLog = <<>>
    /\ late = [c \in Conns |-> "idle"]
    /\ failed = {}
    /\ last = NoEvent

hostVars == <<hostPc, idx, question, printed>>
hostObs == <<advances, broadcastLog>>
connObs == <<echoed, gateq, accepted, writeCount, passes, wwrites>>

\* ---- connect(): one coroutine per websocket ------------------------------

\* accept, greet, Player(ws, player_name), players.add(player)
Connect(c, n) ==
    /\ Alive
    /\ pc[c] = "idle"
    /\ c = Len(players) + 1
    /\ n \in NameChoices
    /\ pc' = [pc EXCEPT ![c] = "recv"]
    /\ name' = [name EXCEPT ![c] = n]
    /\ players' = Append(players, c)
    /\ accepting_answer' = [accepting_answer EXCEPT ![c] = NewPlayerGate]
    /\ late' = [late EXCEPT ![c] = IF hostPc = "send" THEN "send" ELSE "idle"]
    /\ last' = NoEvent
    /\ UNCHANGED <<current_question, results, data, closed, hostVars, asked,
                   hostObs, connObs, failed>>

\* receive_json returns m while the gate is closed: nothing but the log line
ReceiveIgnored(c, m) ==
    /\ Alive
    /\ pc[c] = "recv"
    /\ ~GateOpen(accepting_answer, c)
    /\ last' = Msg(c, m)
    /\ UNCHANGED <<current_question, players, name, accepting_answer, results,
                   pc, data, closed, hostVars, asked, hostObs, connObs, late,
                   failed>>

\* receive_json returns an answer while the gate is open: the echo is handed to
\* send_json and the coroutine is suspended in `await player.send(...)`
ReceiveAnswer(c, m) ==
    /\ Alive
    /\ pc[c] = "recv"
    /\ GateOpen(accepting_answer, c)
    /\ m \in Answers
    /\ IF Propagates(c)
          THEN /\ pc' = [pc EXCEPT ![c] = "crashed"]
               /\ UNCHANGED <<data, echoed, gateq>>
          ELSE /\ data' = [data EXCEPT ![c] = m]
               /\ echoed' = [echoed EXCEPT ![c] = Repeat(m)]
               /\ pc' = [pc EXCEPT ![c] = "echo"]
               /\ gateq' = [gateq EXCEPT ![c] = current_question]
    /\ passes' = [passes EXCEPT ![c] = Bump(@)]
    /\ last' = Msg(c, m)
    /\ UNCHANGED <<current_question, players, name, accepting_answer, results,
                   closed, hostVars, asked, hostObs, accepted, writeCount,
                   wwrites, late, failed>>

\* receive_json returns a payload without "answer" while the gate is open:
\* data["answer"] raises KeyError, which connect() does not catch
ReceiveMalformed(c) ==
    /\ Alive
    /\ pc[c] = "recv"
    /\ GateOpen(accepting_answer, c)
    /\ pc' = [pc EXCEPT ![c] = "crashed"]
    /\ last' = Msg(c, Malformed)
    /\ UNCHANGED <<current_question, players, name, accepting_answer, results,
                   data, closed, hostVars, asked, hostObs, connObs, late,
                   failed>>

\* the echo's await returns: close the gate, read quiz.question and
\* quiz.current_question, call check_answer
RecordAnswer(c) ==
    /\ Alive
    /\ pc[c] = "echo"
    /\ accepting_answer' = BlockAnswer(accepting_answer, c)
    /\ accepted' = accepted \cup {<<name[c], gateq[c]>>}
    /\ IF QuestionReadOK(current_question)
          THEN /\ results' = CheckAnswer(results, name[c], current_question, data[c])
               /\ writeCount' =
                     LET k == <<name[c], current_question>> IN
                     (k :> (IF k \in DOMAIN writeCount
                               THEN Bump(writeCount[k]) ELSE 1)) @@ writeCount
               /\ wwrites' = [wwrites EXCEPT ![c] = Bump(@)]
               /\ pc' = [pc EXCEPT ![c] = "recv"]
          ELSE \* quiz.question raises IndexError
               /\ pc' = [pc EXCEPT ![c] = "crashed"]
               /\ UNCHANGED <<results, writeCount, wwrites>>
    /\ data' = [data EXCEPT ![c] = "none"]
    /\ echoed' = [echoed EXCEPT ![c] = NoEcho]
    /\ gateq' = [gateq EXCEPT ![c] = -1]
    /\ last' = NoEvent
    /\ UNCHANGED <<current_question, players, name, closed, hostVars, asked,
                   hostObs, passes, late, failed>>

\* receive_json raises WebSocketDisconnect: logged; the Player stays in
\* Players._players (the remove call is commented out)
Disconnect(c) ==
    /\ Alive
    /\ pc[c] = "recv"
    /\ pc' = [pc EXCEPT ![c] = "done"]
    /\ last' = NoEvent
    /\ UNCHANGED <<current_question, players, name, accepting_answer, results,
                   data, closed, hostVars, asked, hostObs, connObs, late,
                   failed>>

\* ---- control_server ------------------------------------------------------

\* ainput returns something other than y/Y: continue
HostIgnore(ch) ==
    /\ hostPc = "input"
    /\ Lower(ch) # "y"
    /\ last' = Input(ch)
    /\ UNCHANGED <<current_question, players, name, accepting_answer, results,
                   pc, data, closed, hostVars, asked, hostObs, connObs, late,
                   failed>>

\* ainput returns y/Y and next(quiz) yields a question: print it, unblock the
\* players, start Players.send (run up to its first await)
HostAdvance(ch) ==
    /\ hostPc = "input"
    /\ Lower(ch) = "y"
    /\ IndexOK(NextIndex(current_question))
    /\ current_question' = NextIndex(current_question)
    /\ question' = QuestionAt(current_question')
    /\ accepting_answer' = UnblockPlayers(accepting_answer)
    /\ advances' = advances + 1
    /\ broadcastLog' = Append(broadcastLog, Ask(question').text)
    /\ passes' = [c \in Conns |-> 0]
    /\ wwrites' = [c \in Conns |-> 0]
    /\ late' = [c \in Conns |-> IF c \in Range(players) THEN "no" ELSE late[c]]
    /\ last' = Input(ch)
    /\ IF players = <<>>
          THEN /\ hostPc' = "input"
               /\ idx' = 0
               /\ asked' = [c \in Conns |-> {}]
               /\ failed' = {}
          ELSE /\ hostPc' = IF Propagates(players[1]) THEN "crashed" ELSE "send"
               /\ idx' = 1
               /\ asked' = PlayerSend([c \in Conns |-> {}], players[1],
                                      Ask(question'))
               /\ failed' = Failing({}, players[1])
    /\ UNCHANGED <<players, name, results, pc, data, closed, printed, echoed,
                   gateq, accepted, writeCount>>

\* Players.send resumes after an await: next player of the list, or back to
\* the prompt
BroadcastStep ==
    /\ hostPc = "send"
    /\ IF idx < Len(players)
          THEN /\ idx' = idx + 1
               /\ asked' = PlayerSend(asked, players[idx + 1], Ask(question))
               /\ failed' = Failing(failed, players[idx + 1])
               /\ hostPc' = IF Propagates(players[idx + 1])
                               THEN "crashed" ELSE hostPc
          ELSE /\ idx' = 0
               /\ hostPc' = "input"
               /\ UNCHANGED <<asked, failed>>
    /\ last' = NoEvent
    /\ UNCHANGED <<current_question, players, name, accepting_answer, results,
                   pc, data, closed, question, printed, hostObs, connObs, late>>

\* ainput returns y/Y and next(quiz) raises StopIteration: print the results,
\* start Players.close_connection (run up to its first await), or shut down
\* at once when nobody is registered
HostExhaust(ch) ==
    /\ hostPc = "input"
    /\ Lower(ch) = "y"
    /\ ~IndexOK(NextIndex(current_question))
    /\ current_question' = NextIndex(current_question)
    /\ advances' = advances + 1
    /\ printed' = <<ResultsStr(results)>>
    /\ last' = Input(ch)
    /\ IF players = <<>>
          THEN /\ hostPc' = "dead"
               /\ idx' = 0
               /\ failed' = {}
               /\ UNCHANGED closed
          ELSE /\ hostPc' = IF Propagates(players[1]) THEN "crashed" ELSE "close"
               /\ idx' = 1
               /\ closed' = PlayerClose(players[1])
               /\ failed' = Failing({}, players[1])
    /\ UNCHANGED <<players, name, accepting_answer, results, pc, data, question,
                   asked, broadcastLog, connObs, late>>

\* Players.close_connection resumes after an await: next player, or
\* shutdown_server (SIGKILL: nothing runs afterwards)
CloseStep ==
    /\ hostPc = "close"
    /\ IF idx < Len(players)
          THEN /\ idx' = idx + 1
               /\ closed' = PlayerClose(players[idx + 1])
               /\ failed' = Failing(failed, players[idx + 1])
               /\ hostPc' = IF Propagates(players[idx + 1])
                               THEN "crashed" ELSE hostPc
          ELSE /\ idx' = 0
               /\ hostPc' = "dead"
               /\ UNCHANGED <<closed, failed>>
    /\ last' = NoEvent
    /\ UNCHANGED <<current_question, players, name, accepting_answer, results,
                   pc, data, question, printed, asked, hostObs, connObs, late>>

Next ==
    \/ \E c \in Conns, n \in Names : Connect(c, n)
    \/ \E c \in Conns : \E m \in PayloadsOf(c) : ReceiveIgnored(c, m)
    \/ \E c \in Conns : ReceiveAnswer(c, AnswerOf(c))
    \/ \E c \in Conns : ReceiveMalformed(c)
    \/ \E c \in Conns : RecordAnswer(c)
    \/ \E c \in Conns : Disconnect(c)
    \/ \E ch \in Inputs : HostIgnore(ch)
    \/ \E ch \in Inputs : HostAdvance(ch)
    \/ \E ch \in Inputs : HostExhaust(ch)
    \/ BroadcastStep
    \/ CloseStep

Spec == Init /\ [][Next]_vars

\* the event loop resumes a coroutine whose awaited send or close has returned;
\* the host keeps typing y
HostYes == \E ch \in Inputs : HostAdvance(ch) \/ HostExhaust(ch)
FairSpec ==
    Spec /\ WF_vars(HostYes) /\ WF_vars(BroadcastStep) /\ WF_vars(CloseStep)

\* ---- vocabulary of the properties ----------------------------------------

\* the question indices of the quiz
QuestionIds == 0..(QuizLen - 1)

\* c was in Players._players when the host advanced to the current question
RegisteredAtAdvance(c) == c \in Range(players) /\ late[c] = "no"

\* the question of the last broadcast (-1 before the first)
LastQ == Len(broadcastLog) - 1

\* the Players.send loop of the last broadcast has run to its end
BroadcastDone == LastQ >= 0 /\ hostPc # "send"

\* the keys of the rows printed at the end
PrintedKeys == {<<row[1], row[2]>> : row \in printed[1]}

TypeOK ==
    /\ current_question \in -1..(QuizLen + 1)
    /\ players \in Seq(Conns)
    /\ accepting_answer \in [Conns -> BOOLEAN]
    /\ pc \in [Conns -> {"idle", "recv", "echo", "done", "crashed"}]
    /\ hostPc \in {"input", "send", "close", "dead", "crashed"}
    /\ idx \in 0..NumConns

\* ---- C1 ------------------------------------------------------------------
\* C1: every ledger key (name, question index) is written by check_answer at
\* most once, and a key once written stays in the ledger.
C1_LedgerWrittenOnce ==
    /\ DOMAIN results = DOMAIN writeCount
    /\ \A k \in DOMAIN writeCount : writeCount[k] <= 1

\* ---- C2 ------------------------------------------------------------------
\* C2: whenever the handler writes the ledger (the echo's await returns and
\* check_answer runs), the cursor it records under is the cursor it saw when it
\* found the gate open: no advance took effect in between.
C2_RecordedUnderGateCursor ==
    [][\A c \in Conns :
          (pc[c] = "echo" /\ pc'[c] = "recv" /\ results' # results)
             => gateq[c] = current_question]_vars

\* ---- C3 ------------------------------------------------------------------
\* C3: when a handler has found the gate open while the cursor is Q, the
\* payload of Q has already been handed to send for every participant that
\* was registered at the advance to Q.
C3_BroadcastBeforeAccept ==
    \A c \in Conns :
        (pc[c] = "echo" /\ gateq[c] = current_question
            /\ current_question \in QuestionIds)
        => \A d \in Conns :
              RegisteredAtAdvance(d) => Ask(current_question) \in asked[d]

\* ---- C4 ------------------------------------------------------------------
\* C4: a participant whose connection disconnected before the session ended is
\* no longer in the registry (so no later broadcast or close-all iterates it).
C4_DisconnectedRemoved ==
    \A c \in Conns : pc[c] = "done" => c \notin Range(players)

\* ---- C5 ------------------------------------------------------------------
\* C5: at the advance that exhausts the quiz, the printed snapshot has a row
\* for (P, Q) exactly when P had an answer accepted for Q (gate found open
\* while the cursor was Q, echo returned).
C5_SnapshotIsAccepted ==
    [][(printed = <<>> /\ printed' # <<>>) => PrintedKeys' = accepted]_vars

\* ---- C6 ------------------------------------------------------------------
\* C6: between two successive advances a connection passes the gate (and is
\* sent an echo) at most once and writes the ledger at most once, whatever it
\* sends.
C6_OneAnswerPerWindow ==
    \A c \in Conns : passes[c] <= 1 /\ wwrites[c] <= 1

\* a connection whose one answer of the window was recorded and whose gate is
\* closed again while the question stays current
C6_Witness ==
    \E c \in Conns :
        /\ passes[c] = 1 /\ wwrites[c] = 1
        /\ pc[c] = "recv" /\ ~accepting_answer[c]
        /\ hostPc = "input" /\ current_question \in QuestionIds

\* ---- C7 ------------------------------------------------------------------
\* C7: the cursor starts at -1, stays within -1..N, and every step either
\* leaves it alone or is the reading of an advance command that adds one.
C7_CursorMonotone ==
    /\ current_question = -1
    /\ [](current_question \in -1..QuizLen)
    /\ [][\/ current_question' = current_question /\ advances' = advances
          \/ /\ current_question' = current_question + 1
             /\ advances' = advances + 1
             /\ hostPc = "input"]_vars

\* the cursor has reached N and the process is gone
C7_Witness == current_question = QuizLen /\ hostPc = "dead" /\ advances = QuizLen + 1

\* ---- C8 ------------------------------------------------------------------
\* the k-th broadcast carries question k-1, every payload handed to a
\* participant is that of the running broadcast, the advance after the last
\* question prints the results, and shutdown comes only after close was
\* called on every registered participant
C8_Order ==
    /\ Len(broadcastLog) = (IF advances <= QuizLen THEN advances ELSE QuizLen)
    /\ \A k \in 1..Len(broadcastLog) : broadcastLog[k] = k - 1
    /\ hostPc = "send" => question = advances - 1
    /\ \A c \in Conns : asked[c] \subseteq {Ask(LastQ)}
    /\ LastQ = -1 => \A c \in Conns : asked[c] = {}
    /\ advances <= QuizLen + 1
    /\ advances = QuizLen + 1 <=> printed # <<>>
    /\ hostPc \in {"close", "dead"} <=> advances = QuizLen + 1
    /\ hostPc = "dead" => \A c \in Range(players) : closed[c]

\* C8: questions are broadcast in order, one per advance command, none
\* skipped or repeated; advance N+1 broadcasts nothing, reports the results,
\* closes every registered participant and shuts down; and a host that keeps
\* advancing gets there.
C8_InOrderThenEnded ==
    /\ []C8_Order
    /\ [][\A c \in Conns :
             asked'[c] # asked[c] =>
                /\ advances' <= QuizLen
                /\ asked'[c] \subseteq {Ask(advances' - 1)}]_vars
    /\ <>(hostPc = "dead")

\* the session ended after every question went to a full registry
C8_Witness ==
    /\ hostPc = "dead"
    /\ Len(players) = NumConns
    /\ Len(broadcastLog) = QuizLen
    /\ \A c \in Conns : late[c] = "no" /\ asked[c] = {Ask(QuizLen - 1)}

\* ---- C9 ------------------------------------------------------------------
\* C9: an advance to a question opens the gate of every registered
\* participant, and a gate closes only when the handler records an answer it
\* received from that participant under the current question.
C9_GateStaysOpen ==
    [][/\ (current_question' # current_question /\ IndexOK(current_question'))
            => \A c \in Range(players) : accepting_answer'[c]
       /\ \A c \in Conns :
             (accepting_answer[c] /\ ~accepting_answer'[c])
                => (pc[c] = "echo" /\ gateq[c] = current_question)]_vars

\* ---- C10 -----------------------------------------------------------------
\* C10: once the broadcast of a question has run to its end, its payload has
\* been handed to send for every participant registered at that advance; every
\* payload handed out since is that question's; and a participant that
\* registered after that broadcast ended has been handed no question, has its
\* gate closed and has no answer accepted or in flight until the next
\* advance.
C10_BroadcastReachesRegistered ==
    /\ BroadcastDone =>
          \A c \in Conns :
              RegisteredAtAdvance(c) => Ask(LastQ) \in asked[c]
    /\ \A c \in Conns : asked[c] \subseteq {Ask(LastQ)}
    /\ hostPc = "send" => question = current_question
    /\ \A c \in Range(players) :
          late[c] = "idle" =>
             /\ asked[c] = {}
             /\ ~accepting_answer[c]
             /\ pc[c] # "echo" /\ passes[c] = 0 /\ wwrites[c] = 0

\* a participant registered after the broadcast of the current question ended,
\* while another one holds that question
C10_Witness ==
    \E c, d \in Range(players) :
        /\ c # d
        /\ late[c] = "idle" /\ late[d] = "no"
        /\ current_question \in QuestionIds
        /\ Ask(current_question) \in asked[d]
        /\ asked[c] = {}
        /\ pc[c] = "recv" /\ hostPc = "input"

\* ---- vocabulary of the later properties ----------------------------------

\* the program's own state: what the quiz, the registry, the ledger and the
\* coroutines hold
sessionVars == <<current_question, players, name, accepting_answer, results,
                 pc, data, closed, hostPc, idx, question, printed>>

\* what was handed to the participants' handles
sentVars == <<asked, echoed>>

\* the handler of c ended with an IndexError of quiz.question (a handler that
\* ended with the KeyError of a malformed message keeps its gate open)
IndexCrashed(c) == pc[c] = "crashed" /\ ~accepting_answer[c]

\* position of a registered connection in Players._players
PosOf(c) == CHOOSE i \in 1..Len(players) : players[i] = c

\* ---- C11 -----------------------------------------------------------------
\* C11: a step in which a handler receives a payload without "answer" leaves
\* the cursor, the gates and the ledger alone, hands nothing to any
\* participant, and leaves the handler at its receive, whether the gate is
\* open or closed.
C11_MalformedIgnored ==
    [][\A c \in Conns :
          last' = Msg(c, Malformed)
             => /\ pc'[c] = "recv"
                /\ UNCHANGED <<current_question, accepting_answer, results>>
                /\ UNCHANGED sentVars]_vars

\* ---- C12 -----------------------------------------------------------------
\* C12: a step in which a handler receives an answer while its participant's
\* gate is closed changes nothing of the session (cursor, gates, ledger,
\* registry, coroutine positions) and hands nothing to any participant.
C12_ClosedGateAnswerIgnored ==
    [][\A c \in Conns : \A m \in Answers :
          (last' = Msg(c, m) /\ ~accepting_answer[c])
             => (UNCHANGED sessionVars /\ UNCHANGED sentVars)]_vars

\* a participant whose answer to the current question is in the ledger has
\* just sent another answer
C12_Witness ==
    \E c \in Range(players) :
        /\ last = Msg(c, AnswerOf(c))
        /\ ~accepting_answer[c] /\ pc[c] = "recv"
        /\ wwrites[c] = 1
        /\ <<name[c], current_question>> \in DOMAIN results

\* ---- C13 -----------------------------------------------------------------
\* what holds of the two loops over Players._players in every state: the
\* coordinator never ends with an exception, a handle that raised is still
\* registered, and the loop has called send / close on every participant up
\* to its position, on everyone once it is over
C13_Isolation ==
    /\ hostPc # "crashed"
    /\ failed \subseteq Range(players)
    /\ hostPc = "send" =>
          \A i \in 1..idx : Ask(question) \in asked[players[i]]
    /\ BroadcastDone =>
          \A c \in Range(players) : late[c] # "idle" => Ask(LastQ) \in asked[c]
    /\ hostPc = "close" => \A i \in 1..idx : closed[players[i]]
    /\ hostPc = "dead" => \A c \in Range(players) : closed[c]

\* C13: a send or close that raises RuntimeError on one participant's handle
\* does not end Players.send / Players.close_connection: the loop moves on to
\* that participant's position and beyond, send / close is called for every
\* other registered participant, nobody leaves the registry, and
\* control_server sees no exception.
C13_FailureIsolated ==
    /\ []C13_Isolation
    /\ [][/\ Len(players') >= Len(players)
          /\ SubSeq(players', 1, Len(players)) = players
          /\ \A c \in Conns :
                (c \in failed' /\ c \notin failed)
                   => (hostPc' \in {"send", "close"} /\ players[idx'] = c)]_vars

\* a broadcast is over in which the handle of an earlier participant of the
\* list raised and a later participant, still connected, was sent the question
C13_Witness ==
    /\ hostPc = "input" /\ BroadcastDone
    /\ \E c, d \in Range(players) :
          /\ PosOf(c) < PosOf(d)
          /\ c \in failed /\ d \notin failed
          /\ Ask(LastQ) \in asked[c] /\ Ask(LastQ) \in asked[d]
          /\ pc[d] = "recv"

\* ---- C14 -----------------------------------------------------------------
\* C14: a step that reads a console line other than "y" / "Y" leaves the
\* session state (cursor, gates, registry, ledger, coroutine positions) alone
\* and hands nothing to any participant; and the cursor moves only in a step
\* that reads "y" or "Y".
C14_OnlyYAdvances ==
    [][/\ (last'.kind = "input" /\ last'.text \notin {"y", "Y"})
             => (UNCHANGED sessionVars /\ UNCHANGED sentVars)
       /\ (current_question' # current_question \/ advances' # advances)
             => (last'.kind = "input" /\ last'.text \in {"y", "Y"})]_vars

\* the host typed something else while a question was open for a registered
\* participant
C14_Witness ==
    /\ last.kind = "input" /\ last.text \notin {"y", "Y"}
    /\ hostPc = "input"
    /\ current_question \in QuestionIds
    /\ \E c \in Range(players) : accepting_answer[c] /\ pc[c] = "recv"

\* ---- C15 -----------------------------------------------------------------
\* C15: the step that accepts an answer hands the echo {type: "repeat",
\* text: answer} to the sender's handle and leaves the ledger alone; and every
\* step that writes the ledger is the return of a handler from the send of
\* that echo, writing the answer that was echoed.
C15_EchoBeforeLedger ==
    [][/\ \A c \in Conns :
             (pc[c] = "recv" /\ pc'[c] = "echo")
                => /\ last'.text \in Answers
                   /\ echoed'[c] = [type |-> "repeat", text |-> last'.text]
                   /\ data'[c] = last'.text
                   /\ results' = results /\ writeCount' = writeCount
       /\ (results' # results \/ writeCount' # writeCount)
             => \E c \in Conns :
                   /\ pc[c] = "echo" /\ pc'[c] = "recv"
                   /\ echoed[c] = [type |-> "repeat", text |-> data[c]]
                   /\ <<name[c], current_question>> \in DOMAIN results'
                   /\ results'[<<name[c], current_question>>].answer = data[c]
                   /\ \A k \in DOMAIN results :
                         k # <<name[c], current_question>> =>
                            (k \in DOMAIN results' /\ results'[k] = results[k])]_vars

\* a handler is back at its receive after echoing and recording the answer of
\* the current question
C15_Witness ==
    \E c \in Range(players) :
        /\ pc[c] = "recv" /\ last = NoEvent
        /\ passes[c] = 1 /\ wwrites[c] = 1
        /\ echoed[c] = NoEcho
        /\ <<name[c], current_question>> \in DOMAIN results
        /\ results[<<name[c], current_question>>].answer = AnswerOf(c)

\* ---- C16 -----------------------------------------------------------------
\* C16: in every step in which the broadcast loop hands a question payload to
\* the reachable handle of a participant, that participant's gate is open
\* after the step, also when the participant was added to the registry while
\* the loop was suspended.
C16_DeliveredImpliesGateOpen ==
    [][\A c \in Conns :
          (asked'[c] # asked[c] /\ asked'[c] # {} /\ Reachable(c))
             => accepting_answer'[c]]_vars

\* ---- C17 -----------------------------------------------------------------
\* C17: in every step in which a handler, back from the send of its echo,
\* reads quiz.question, the cursor is a question index (0 <= cursor < N), also
\* between the advance that exhausts the quiz and the shutdown.
C17_QuestionReadInRange ==
    [][\A c \in Conns :
          (pc[c] = "echo" /\ pc'[c] # "echo")
             => (current_question \in QuestionIds /\ pc'[c] = "recv")]_vars

\* ---- C18 -----------------------------------------------------------------
\* C18: every key (name, index) of the ledger, and every key check_answer was
\* ever called with, has 0 <= index < N.
C18_LedgerKeysInRange ==
    /\ \A k \in DOMAIN results : k[2] \in QuestionIds
    /\ \A k \in DOMAIN writeCount : k[2] \in QuestionIds

\* the ledger holds an entry of the last question, and a handler that came
\* back from its echo under the exhausted cursor left no entry
C18_Witness ==
    /\ current_question = QuizLen
    /\ \E c \in Range(players) :
          /\ IndexCrashed(c)
          /\ <<name[c], QuizLen>> \notin DOMAIN results
          /\ \E d \in Range(players) : <<name[d], QuizLen - 1>> \in DOMAIN results

\* ---- C19 -----------------------------------------------------------------
\* C19: after control_server has printed the results, no step writes the
\* ledger, although handlers still run until shutdown.
C19_NoWriteAfterResults ==
    [][printed # <<>> =>
          (results' = results /\ writeCount' = writeCount /\ wwrites' = wwrites)]_vars

\* after the results were printed, and before shutdown, a handler came back
\* from the send of its echo, and the ledger is still the printed one
C19_Witness ==
    /\ printed # <<>> /\ hostPc = "close"
    /\ printed[1] = ResultsStr(results)
    /\ \E c \in Range(players) : IndexCrashed(c) /\ passes[c] = 1

====
